---- MODULE Spec2Model ----
(***************************************************************************)
(* Flash-sale reservation engine: the purchase transaction                 *)
(* (doPurchase, attemptPurchase) running its WATCH / MGET / MULTI..EXEC    *)
(* sequence on the round-robin pool of Redis connections (getTxConn),      *)
(* and the reads getPurchase and getStatus, against the keys sale:config,  *)
(* sale:stock, user:<id> and sale:orders; in front of it the route         *)
(* POST /api/purchase with its CSRF pre-handler, and the two clients of    *)
(* that route, the frontend (buy) and the load-test client (oneAttempt).   *)
(*                                                                         *)
(* Every action is one Redis round trip of one request handler together    *)
(* with the local code that follows it up to the next round trip.          *)
(***************************************************************************)
EXTENDS Integers, Sequences, FiniteSets, TLC

\* ---------------------------------------------------------------- bounds
NumBuyers == 4          \* distinct buyer identities
MaxCalls == 2           \* purchase requests of a run in which time passes
BurstCalls == 4         \* purchase requests of a burst at one instant
ReadCalls == 2           \* purchase requests of a run with lookups
ContendCalls == 3       \* purchase requests of a burst, open or ended sale
OutageCalls == 2        \* purchase requests around an outage of the store
NumIps == 2             \* client addresses the rate limiter sees
MaxPools == 2           \* pools built by initTxPool in one run
MaxGets == 4            \* calls of getTxConn in one run
MaxClosers == 2         \* calls of closeTxPool under way at once
RateMax == 2            \* max of rateLimit, 20 in the code
RateTtl == 2            \* ttl of rateLimit in ticks of the clock, 10 s in the code
MaxHooks == 4           \* requests that reach the onRequest hook
InputCalls == 2         \* purchase requests sent one after another
MaxTokens == 2          \* distinct values of the CSRF token
MaxStock == 2           \* largest configured initialStock
MaxClock == 3           \* last instant of Date.now()
StartsAt == 1           \* SALE_START
EndsAt == 2             \* SALE_END
MaxPoolSize == 2        \* largest REDIS_TX_POOL (default 8)
MAX_RETRIES == 2        \* PURCHASE_MAX_RETRIES (default 5)

\* shortest user id the handlers accept
MinUserIdLength == 3

Buyers == 1..NumBuyers
Sessions == 0..(MaxPoolSize - 1)
Tokens == 1..MaxTokens

\* an absent (or empty) cookie or header
NoToken == 0
Ips == 1..NumIps
NoExpiry == 0           \* a key without a time to live
Base == -1              \* the shared client `redis`, next to the pooled ones

\* ------------------------------------------------------------ store keys
stockKey == <<"sale:stock">>
userKey(userId) == <<"user", userId>>

\* null reply of GET / MGET for a missing key
Nil == <<>>

VARIABLES
  clock,      \* Date.now()
  cfg,        \* hash sale:config
  stock,      \* key sale:stock
  receipts,   \* keys user:<id>, Nil when the key does not exist
  orders,     \* list sale:orders, head first
  poolSize,   \* txPool.length, POOL_SIZE connections after initTxPool
  rr,         \* round-robin cursor of the TX pool
  watched,    \* per pooled connection: keys under WATCH
  dirty,      \* per pooled connection: a watched key was touched
  calls,      \* the purchase requests, in order of arrival
  lookup,     \* latest GET /api/purchase/:userId: serial, userId, reply
  status,     \* reply of the latest GET /api/status
  gate,       \* latest POST /api/purchase as csrfPreHandler saw and answered it
  app,        \* the frontend: csrfToken, the browser's cookie, buy() in progress
  tester,     \* the load-test client: token, cookie, position in oneAttempt
  request,    \* latest request whose userId a handler validated, and the 422 if any
  store,      \* whether Redis answers, and the status of each client connection
  pool,       \* txPool, poolInitPromise, closeTxPool under way, latest getTxConn
  boot,       \* the startup sequence, and whether the key sale:stock exists
  limiter     \* keys ratelimit:<ip> with their expiry, and the hooks under way

vars == <<clock, cfg, stock, receipts, orders, poolSize, rr, watched, dirty, calls,
          lookup, status, gate, app, tester, request, store, pool, boot, limiter>>

\* ------------------------------------------------------- pure helpers
\* a window check that forgets the end of the sale
WindowClosedStartOnly(now, startsAt, endsAt) == now < startsAt

\* a window check that closes the sale at endsAt already
WindowClosedAtEnd(now, startsAt, endsAt) == now < startsAt \/ now >= endsAt

\* window check of one attempt
WindowClosed(now, startsAt, endsAt) == now < startsAt \/ now > endsAt

\* a stock check that still sells at zero
NoStockBelowZero(s) == s < 0

\* stock check of one attempt
NoStock(s) == s <= 0

\* orderId = `${now}:${userId}`
OrderIdOf(now, userId) == <<now, userId>>

\* a guard that is off by one
NegativeStockOffByOne(newStock) == newStock < -1

\* guard on the reply of DECR
NegativeStock(newStock) == newStock < 0

\* a cursor that always points at the first member
PoolIndexFirst(cursor, length) == 0

\* txPool[rr++ % txPool.length]
PoolIndex(cursor, length) == cursor % length

\* a loop that gives up one attempt early
MayRetryOneFewer(tries) == tries < MAX_RETRIES - 1

\* a loop that never goes round again
MayRetryNever(tries) == FALSE

\* loop condition of the retry loop
MayRetry(tries) == tries < MAX_RETRIES

\* { purchased: !!orderId, orderId: orderId ?? null }
PurchaseReply(orderId) == [purchased |-> orderId # Nil, orderId |-> orderId]

\* a phase derivation that looks at the stock before the end of the sale
PhaseStockFirst(now, startsAt, endsAt, stockLeft) ==
  IF now < startsAt THEN "upcoming"
  ELSE IF stockLeft <= 0 THEN "sold_out"
  ELSE IF now > endsAt THEN "ended"
  ELSE "active"

\* getStatus: status starts as "active" and the first branch that matches
\* replaces it
Phase(now, startsAt, endsAt, stockLeft) ==
  IF now < startsAt THEN "upcoming"
  ELSE IF now > endsAt THEN "ended"
  ELSE IF stockLeft <= 0 THEN "sold_out"
  ELSE "active"

\* a user id as the client sends it is a string of characters, Space among
\* them; the id of buyer b is a fixed three-character string ending in b
Space == 0
Letter == 9
NameOf(b) == <<Letter, Letter, b>>
BuyerOf(userId) == userId[Len(userId)]

\* String.prototype.trim
RECURSIVE TrimStart(_)
TrimStart(s) == IF s # <<>> /\ Head(s) = Space THEN TrimStart(Tail(s)) ELSE s
RECURSIVE TrimEnd(_)
TrimEnd(s) ==
  IF s # <<>> /\ s[Len(s)] = Space THEN TrimEnd(SubSeq(s, 1, Len(s) - 1)) ELSE s
Trim(s) == TrimEnd(TrimStart(s))

\* a validation that lets two-character ids through
ValidUserIdFromTwo(userId) == Len(userId) >= MinUserIdLength - 1

\* the negation of  !userId || userId.length < 3
ValidUserId(userId) == userId # <<>> /\ Len(userId) >= MinUserIdLength

\* the user ids a client may send for buyer b: none, one of one or two
\* characters, or the name of b, each with and without spaces around
RawUserIds(b) ==
  LET cores == {<<>>, <<Letter>>, <<Letter, Letter>>, NameOf(b)}
      pads == {<<>>, <<Space>>} IN
  {l \o c \o r : l \in pads, c \in cores, r \in pads}

\* a purchase request that has not been answered
NoReply == [http |-> 0, status |-> "", error |-> "", orderId |-> Nil]

\* the reply doPurchase sends for the code attemptPurchase returned
DoPurchaseReply(code, orderId) ==
  CASE code = 0 -> [http |-> 200, status |-> "purchased", error |-> "", orderId |-> orderId]
    [] code = 1 -> [http |-> 409, status |-> "already_purchased", error |-> "", orderId |-> orderId]
    [] code = 2 -> [http |-> 410, status |-> "sold_out", error |-> "", orderId |-> Nil]
    [] code = 3 -> [http |-> 403, status |-> "not_active", error |-> "", orderId |-> Nil]
    [] code = 4 -> [http |-> 503, status |-> "busy", error |-> "", orderId |-> Nil]
    [] OTHER -> [http |-> 500, status |-> "", error |-> "unknown", orderId |-> Nil]

\* header = x-csrf-token || x-xsrf-token
HeaderOf(xCsrfToken, xXsrfToken) ==
  IF xCsrfToken # NoToken THEN xCsrfToken ELSE xXsrfToken

\* a check that only asks for both tokens to be there
AssertCsrfPresence(cookie, header) ==
  IF cookie = NoToken THEN "missing_cookie"
  ELSE IF header = NoToken THEN "missing_header" ELSE "ok"

\* assertCsrf: the reason of the error it throws, "ok" when it returns
AssertCsrf(cookie, header) ==
  IF cookie = NoToken THEN "missing_cookie"
  ELSE IF header = NoToken THEN "missing_header"
  ELSE IF header # cookie THEN "mismatch"
  ELSE "ok"

\* csrfPreHandler let the request through to the route handler
Passed == [http |-> 0, error |-> "", reason |-> "ok", csrfToken |-> NoToken,
           setCookie |-> NoToken]

\* csrfPreHandler after a throw: the token of issueCsrfToken goes into the
\* Set-Cookie header and into the body of the 403
CsrfRejection(reason, token) ==
  [http |-> 403, error |-> "csrf", reason |-> reason, csrfToken |-> token,
   setCookie |-> token]

\* the message buy() shows for r.status
Toast(http) ==
  CASE http = 200 -> "Success! You secured the item."
    [] http = 409 -> "You already purchased this item."
    [] http = 410 -> "Sold out."
    [] http = 403 -> "Sale is not active."
    [] http = 503 -> "High demand - please try again."
    [] OTHER -> "Unexpected error. Please try again."

\* buyJson?.status || buyJson?.error || String(buyRes.statusCode)
Outcome(reply) ==
  IF reply.status # "" THEN reply.status
  ELSE IF reply.error # "" THEN reply.error
  ELSE ToString(reply.http)

\* mergeCookies: the cookie of the Set-Cookie header when there is one
MergeCookies(oldCookie, setCookie) ==
  IF setCookie = NoToken THEN oldCookie ELSE setCookie

\* ------------------------------------------------ Redis WATCH semantics
\* WATCH k1 k2 on connection c: the keys join the connection's watch set
Watch(c, keys) == [watched EXCEPT ![c] = @ \cup keys]

\* UNWATCH, and every EXEC whether it commits or not: the connection
\* forgets all the keys it watches, whichever call asked for them
Forget(c) == [watched EXCEPT ![c] = {}]

\* an EXEC whose writes flag no other connection
TouchedNobody(c, keys) == [t \in Sessions |-> IF t = c THEN FALSE ELSE dirty[t]]

\* the EXEC of connection c writes `keys` (none when it is rejected): the
\* flag of c is cleared, every other connection that watches one of the
\* keys is flagged
Touched(c, keys) ==
  [t \in Sessions |-> IF t = c THEN FALSE
                      ELSE dirty[t] \/ (watched[t] \cap keys # {})]

\* ------------------------------------------------------------- requests
CallIds == 1..Len(calls)
InFlight(i) == calls[i].pc \notin {"done", "thrown"}
Quiescent == \A i \in CallIds : ~InFlight(i)

\* ensureConnected: a ready client is used at once, a connecting one is
\* waited for, any other is told to connect
EnsureConnected(c) ==
  CASE store.link[c] = "ready" -> "watch"
    [] store.link[c] = "connecting" -> "awaitReady"
    [] OTHER -> "connect"

\* `dedicated` records for the properties whether the connection handed out
\* by getTxConn was used by no other call in flight at that moment, and
\* `written` whether, since the WATCH of the running attempt, another call
\* has committed a write to a key the attempt watches
NewCall(userId, now, c) ==
  [userId |-> userId, now |-> now, startsAt |-> cfg.startsAt,
   endsAt |-> cfg.endsAt, conn |-> c, pc |-> EnsureConnected(c), tries |-> 0,
   stock |-> 0, code |-> -1, orderId |-> Nil, reply |-> NoReply,
   dedicated |-> \A j \in CallIds : InFlight(j) => calls[j].conn # c,
   written |-> FALSE]

\* the locals `stock` and `tries` live only while the attempt needs them
Goto(i, label) ==
  [calls EXCEPT ![i].pc = label, ![i].stock = 0, ![i].written = FALSE]

\* every transaction writes sale:stock, which every attempt watches: the
\* calls cs after a write committed by call i
Note(cs, i) ==
  [k \in CallIds |-> IF k # i /\ cs[k].pc \in {"mget", "exec"}
                       THEN [cs[k] EXCEPT !.written = TRUE]
                       ELSE cs[k]]

\* attemptPurchase returns and doPurchase answers the request
Return(i, code, orderId) ==
  [calls EXCEPT ![i].pc = "done", ![i].code = code, ![i].orderId = orderId,
                ![i].stock = 0, ![i].tries = 0, ![i].written = FALSE,
                ![i].reply = DoPurchaseReply(code, orderId)]

\* a rejected promise inside doPurchase: the framework answers 500
Throw(i) ==
  [calls EXCEPT ![i].pc = "thrown", ![i].stock = 0, ![i].tries = 0,
                ![i].written = FALSE,
                ![i].reply = [http |-> 500, status |-> "",
                              error |-> "Internal Server Error", orderId |-> Nil]]

\* buyer identities are interchangeable: a request names a buyer seen
\* before or the first one not seen yet
Seen == {calls[i].userId : i \in CallIds}
Known == {b \in Buyers : \A a \in 1..(b - 1) : a \in Seen}

\* no connection handed out yet
NoConn == [index |-> -1, session |-> 0, thrown |-> FALSE]

\* no ratelimit:<ip> key, no request in the hook; DISABLE_RATELIMIT as given
NoKeys(disabled) == [disabled |-> disabled, count |-> [ip \in Ips |-> 0],
                     expires |-> [ip \in Ips |-> NoExpiry],
                     admitted |-> [ip \in Ips |-> 0], hooks |-> <<>>]

\* the store after flushall + bootstrapSale, the pool after initTxPool
InitSale ==
  /\ \E s \in 1..MaxStock :
       /\ cfg = [startsAt |-> StartsAt, endsAt |-> EndsAt, initialStock |-> s]
       /\ stock = s
  /\ receipts = [b \in Buyers |-> Nil]
  /\ orders = <<>>
  /\ boot = [pc |-> "listen", flush |-> TRUE, hasStock |-> TRUE, hasConfig |-> TRUE,
             exists |-> FALSE, loaded |-> cfg]
InitRedis == InitSale /\ limiter = NoKeys(FALSE)
InitPool ==
  /\ poolSize \in 1..MaxPoolSize
  /\ rr = 0
  /\ watched = [c \in Sessions |-> {}]
  /\ dirty = [c \in Sessions |-> FALSE]
  /\ store = [up |-> TRUE, link |-> [c \in Sessions \cup {Base} |-> "ready"]]
  /\ pool = [size |-> poolSize, txPool |-> [k \in 1..poolSize |-> k],
             poolInitPromise |-> TRUE, made |-> poolSize, closing |-> 0,
             quit |-> {}, op |-> "", got |-> NoConn]
InitClients ==
  /\ calls = <<>>
  /\ lookup = [serial |-> 0, userId |-> 0, reply |-> PurchaseReply(Nil)]
  /\ status = [status |-> "", startsAt |-> 0, endsAt |-> 0, stock |-> 0, sold |-> 0]
  /\ gate = [cookie |-> NoToken, header |-> NoToken, reply |-> Passed]
  /\ app = [csrfToken |-> NoToken, cookie |-> NoToken, submitting |-> FALSE,
            call |-> 0, toast |-> "", posts |-> 0, rejected |-> 0]
  /\ request = [route |-> "", userId |-> <<>>, http |-> 0, error |-> ""]
  /\ tester = [token |-> NoToken, cookie |-> NoToken, uid |-> 0, pc |-> "csrf",
               call |-> 0, outcome |-> "", posts |-> 0, rejected |-> 0]
InitStore == InitRedis /\ InitPool /\ InitClients

Init == InitStore /\ clock = 0

\* time passes
Tick ==
  /\ clock < MaxClock
  /\ clock' = clock + 1
  /\ UNCHANGED <<cfg, stock, receipts, orders, poolSize, store, pool, boot, limiter, rr, watched, dirty, calls, lookup, status, gate, app, tester, request>>

\* doPurchase up to the first WATCH: read sale:config, take Date.now(),
\* take the next pooled connection
DoPurchase(userId) ==
  /\ calls' = Append(calls, NewCall(userId, clock, PoolIndex(rr, poolSize)))
  /\ rr' = rr + 1
  /\ store' = [store EXCEPT !.link[PoolIndex(rr, poolSize)] =
                                IF @ = "reconnecting" THEN "connecting" ELSE @]
  /\ UNCHANGED <<clock, cfg, stock, receipts, orders, poolSize, pool, boot, limiter,
                 watched, dirty, lookup, status>>

\* conn.watch(stockKey, userKey), then the window check
AttemptWatch(i) ==
  LET c == calls[i] IN
  /\ c.pc = "watch"
  /\ store.link[c.conn] = "ready"
  /\ watched' = Watch(c.conn, {stockKey, userKey(c.userId)})
  /\ calls' = IF WindowClosed(c.now, c.startsAt, c.endsAt)
                THEN Goto(i, "unwatchClosed")
                ELSE Goto(i, "mget")
  /\ UNCHANGED <<clock, cfg, stock, receipts, orders, poolSize, store, pool, boot, limiter, rr, dirty, lookup, status, gate, app, tester, request>>

\* an attempt that looks at the stock before it looks at the receipt
AttemptReadStockFirst(i) ==
  LET c == calls[i]
      existing == receipts[c.userId] IN
  /\ c.pc = "mget"
  /\ store.link[c.conn] = "ready"
  /\ calls' = IF NoStock(stock)
                THEN Goto(i, "unwatchSoldOut")
                ELSE IF existing # Nil
                  THEN [calls EXCEPT ![i].pc = "unwatchDup", ![i].orderId = existing,
                                    ![i].written = FALSE]
                  ELSE [calls EXCEPT ![i].pc = "exec", ![i].stock = stock]
  /\ UNCHANGED <<clock, cfg, stock, receipts, orders, poolSize, store, pool, boot, limiter, rr, watched, dirty, lookup, status, gate, app, tester, request>>

\* conn.mget(stockKey, userKey), then the duplicate and the stock check
AttemptRead(i) ==
  LET c == calls[i]
      existing == receipts[c.userId] IN
  /\ c.pc = "mget"
  /\ store.link[c.conn] = "ready"
  /\ calls' = IF existing # Nil
                THEN [calls EXCEPT ![i].pc = "unwatchDup", ![i].orderId = existing,
                                    ![i].written = FALSE]
                ELSE IF NoStock(stock)
                  THEN Goto(i, "unwatchSoldOut")
                  ELSE [calls EXCEPT ![i].pc = "exec", ![i].stock = stock]
  /\ UNCHANGED <<clock, cfg, stock, receipts, orders, poolSize, store, pool, boot, limiter, rr, watched, dirty, lookup, status, gate, app, tester, request>>

\* conn.unwatch() in front of a return or of the backoff
AttemptUnwatch(i) ==
  LET c == calls[i] IN
  /\ c.pc \in {"unwatchClosed", "unwatchDup", "unwatchSoldOut",
               "unwatchRetry", "unwatchBusy"}
  /\ store.link[c.conn] = "ready"
  /\ watched' = Forget(c.conn)
  /\ dirty' = [dirty EXCEPT ![c.conn] = FALSE]
  /\ calls' =
       CASE c.pc = "unwatchClosed" -> Return(i, 3, Nil)
         [] c.pc = "unwatchDup" -> Return(i, 1, c.orderId)
         [] c.pc = "unwatchSoldOut" -> Return(i, 2, Nil)
         [] c.pc = "unwatchBusy" -> Return(i, 4, Nil)
         [] c.pc = "unwatchRetry" ->
              IF MayRetry(c.tries + 1)
                THEN [calls EXCEPT ![i].pc = "watch", ![i].tries = c.tries + 1]
                ELSE [calls EXCEPT ![i].pc = "unwatchBusy", ![i].tries = c.tries + 1]
  /\ UNCHANGED <<clock, cfg, stock, receipts, orders, poolSize, store, pool, boot, limiter, rr, lookup, status, gate, app, tester, request>>

\* a rejected transaction whose DECR has been applied all the same
AttemptExecRejectedAfterDecr(i) ==
  LET c == calls[i] IN
  /\ c.pc = "exec"
  /\ store.link[c.conn] = "ready"
  /\ dirty[c.conn]
  /\ stock' = stock - 1
  /\ watched' = Forget(c.conn)
  /\ dirty' = Touched(c.conn, {stockKey})
  /\ calls' = Goto(i, "unwatchRetry")
  /\ UNCHANGED <<clock, cfg, receipts, orders, poolSize, store, pool, boot, limiter, rr, lookup, status, gate, app, tester, request>>

\* MULTI DECR SET LPUSH EXEC: rejected (null reply) when the connection
\* is dirty
AttemptExecRejected(i) ==
  LET c == calls[i] IN
  /\ c.pc = "exec"
  /\ dirty[c.conn]
  /\ store.link[c.conn] = "ready"
  /\ watched' = Forget(c.conn)
  /\ dirty' = Touched(c.conn, {})
  /\ calls' = Goto(i, "unwatchRetry")
  /\ UNCHANGED <<clock, cfg, stock, receipts, orders, poolSize, store, pool, boot, limiter, rr, lookup, status, gate, app, tester, request>>

\* MULTI DECR SET LPUSH EXEC: committed, then the guard on the DECR reply
AttemptExecCommitted(i) ==
  LET c == calls[i]
      orderId == OrderIdOf(c.now, c.userId)
      newStock == stock - 1 IN
  /\ c.pc = "exec"
  /\ ~dirty[c.conn]
  /\ store.link[c.conn] = "ready"
  /\ stock' = newStock
  /\ receipts' = [receipts EXCEPT ![c.userId] = orderId]
  /\ orders' = <<[userId |-> c.userId, ts |-> c.now, orderId |-> orderId]>> \o orders
  /\ watched' = Forget(c.conn)
  /\ dirty' = Touched(c.conn, {stockKey, userKey(c.userId)})
  /\ calls' = Note(IF NegativeStock(newStock)
                     THEN Goto(i, "rollback")
                     ELSE Return(i, 0, orderId), i)
  /\ UNCHANGED <<clock, cfg, poolSize, store, pool, boot, limiter, rr, lookup, status, gate, app, tester, request>>

\* a rollback that clears the receipts of all buyers
AttemptRollbackFlushing(i) ==
  LET c == calls[i] IN
  /\ c.pc = "rollback"
  /\ store.link[c.conn] = "ready"
  /\ watched' = Forget(c.conn)
  /\ dirty' = Touched(c.conn, {stockKey})
  /\ stock' = stock + 1
  /\ receipts' = [b \in Buyers |-> Nil]
  /\ calls' = Note(Return(i, 2, Nil), i)
  /\ UNCHANGED <<clock, cfg, orders, poolSize, store, pool, boot, limiter, rr, lookup, status, gate, app, tester, request>>

\* MULTI INCR DEL EXEC of the guard rollback; its reply is not looked at
AttemptRollback(i) ==
  LET c == calls[i]
      deleted == IF receipts[c.userId] # Nil THEN {userKey(c.userId)} ELSE {} IN
  /\ c.pc = "rollback"
  /\ store.link[c.conn] = "ready"
  /\ watched' = Forget(c.conn)
  /\ IF dirty[c.conn]
       THEN /\ dirty' = Touched(c.conn, {})
            /\ calls' = Return(i, 2, Nil)
            /\ UNCHANGED <<stock, receipts>>
       ELSE /\ dirty' = Touched(c.conn, {stockKey} \cup deleted)
            /\ stock' = stock + 1
            /\ receipts' = [receipts EXCEPT ![c.userId] = Nil]
            /\ calls' = Note(Return(i, 2, Nil), i)
  /\ UNCHANGED <<clock, cfg, orders, poolSize, store, pool, boot, limiter, rr, lookup, status, gate, app, tester, request>>

\* a lookup that reads the user key with GETDEL
GetPurchaseConsuming(userId) ==
  /\ lookup' = [serial |-> 1 - lookup.serial, userId |-> userId,
                reply |-> PurchaseReply(receipts[userId])]
  /\ receipts' = [receipts EXCEPT ![userId] = Nil]
  /\ UNCHANGED <<clock, cfg, stock, orders, poolSize, store, pool, boot, limiter, rr, watched, dirty, calls,
                 status, gate, app, tester, request>>

\* GET /api/purchase/:userId
GetPurchase(userId) ==
  /\ lookup' = [serial |-> 1 - lookup.serial, userId |-> userId,
                reply |-> PurchaseReply(receipts[userId])]
  /\ UNCHANGED <<clock, cfg, stock, receipts, orders, poolSize, store, pool, boot, limiter, rr, watched, dirty, calls,
                 status, gate, app, tester, request>>

\* GET /api/status; sale:stock and initialStock always hold an integer, which
\* Number(..) || 0 gives back as it is
GetStatus ==
  LET stockLeft == stock IN
  /\ status' = [status |-> Phase(clock, cfg.startsAt, cfg.endsAt, stockLeft),
                startsAt |-> cfg.startsAt, endsAt |-> cfg.endsAt,
                stock |-> stockLeft,
                sold |-> cfg.initialStock - stockLeft]
  /\ UNCHANGED <<clock, cfg, stock, receipts, orders, poolSize, store, pool, boot, limiter, rr, watched, dirty, calls,
                 lookup, gate, app, tester, request>>

\* doPurchase from the request body on: the userId is trimmed and validated
\* before anything else happens
DoPurchaseBody(body) ==
  LET userId == Trim(body) IN
  IF ValidUserId(userId)
    THEN /\ request' = [route |-> "POST /api/purchase",
                        userId |-> body, http |-> 0, error |-> ""]
         /\ DoPurchase(BuyerOf(userId))
    ELSE /\ request' = [route |-> "POST /api/purchase",
                        userId |-> body, http |-> 422, error |-> "invalid_user"]
         /\ UNCHANGED <<clock, cfg, stock, receipts, orders, poolSize, store, pool, boot, limiter, rr, watched,
                        dirty, calls, lookup, status>>

\* getPurchase from the route parameter on
GetPurchaseParam(param) ==
  LET userId == Trim(param) IN
  IF ValidUserId(userId)
    THEN /\ request' = [route |-> "GET /api/purchase/:userId",
                        userId |-> param, http |-> 0, error |-> ""]
         /\ lookup' = [serial |-> 1 - lookup.serial, userId |-> BuyerOf(userId),
                       reply |-> PurchaseReply(receipts[BuyerOf(userId)])]
         /\ UNCHANGED <<clock, cfg, stock, receipts, orders, poolSize, store, pool, boot, limiter, rr, watched,
                        dirty, calls, status>>
    ELSE /\ request' = [route |-> "GET /api/purchase/:userId",
                        userId |-> param, http |-> 422, error |-> "invalid_user"]
         /\ UNCHANGED <<clock, cfg, stock, receipts, orders, poolSize, store, pool, boot, limiter, rr, watched,
                        dirty, calls, lookup, status>>

\* a POST or a GET of any client with any user id; the POSTs come one after
\* another, the GETs at any time
AnyBody(limit) ==
  \E b \in Known : \E body \in RawUserIds(b) :
    /\ Len(calls) < limit
    /\ Quiescent
    /\ DoPurchaseBody(body)
    /\ UNCHANGED <<gate, app, tester>>
AnyParam ==
  \E b \in Known : \E param \in RawUserIds(b) :
    /\ GetPurchaseParam(param)
    /\ UNCHANGED <<gate, app, tester>>

\* a new request, while the run has room for one
Arrive(limit) ==
  \E b \in Known : Len(calls) < limit /\ DoPurchase(b) /\ UNCHANGED <<gate, app, tester, request>>

\* ------------------------------------------------------ the HTTP route
\* POST /api/purchase: csrfPreHandler, then doPurchase
PostPurchase(userId, cookie, header) ==
  IF AssertCsrf(cookie, header) = "ok"
    THEN /\ gate' = [cookie |-> cookie, header |-> header, reply |-> Passed]
         /\ DoPurchase(userId)
    ELSE /\ \E token \in Tokens :
              gate' = [cookie |-> cookie, header |-> header,
                       reply |-> CsrfRejection(AssertCsrf(cookie, header), token)]
         /\ UNCHANGED <<clock, cfg, stock, receipts, orders, poolSize, store, pool, boot, limiter, rr, watched,
                        dirty, calls, lookup, status>>

\* a POST /api/purchase of any client, with any cookie and headers; the
\* body of a request that csrfPreHandler rejects is never read
AnyPost(limit) ==
  \E cookie, xCsrfToken, xXsrfToken \in Tokens \cup {NoToken} :
    LET header == HeaderOf(xCsrfToken, xXsrfToken) IN
    \E b \in IF AssertCsrf(cookie, header) = "ok" THEN Known ELSE {1} :
      /\ Len(calls) < limit
      /\ PostPurchase(b, cookie, header)
      /\ UNCHANGED <<app, tester, request>>

\* ------------------------------------------------------- the frontend
\* effect on mount: GET /api/csrf, the token goes into the state and, by
\* Set-Cookie, into the browser
AppMount ==
  /\ app.csrfToken = NoToken
  /\ \E token \in Tokens : app' = [app EXCEPT !.csrfToken = token, !.cookie = token]
  /\ UNCHANGED <<clock, cfg, stock, receipts, orders, poolSize, store, pool, boot, limiter, rr, watched, dirty,
                 calls, lookup, status, gate, tester, request>>

\* the cookie reaches its maxAge and the browser drops it
CookieExpires ==
  /\ app.cookie # NoToken
  /\ ~app.submitting
  /\ app' = [app EXCEPT !.cookie = NoToken]
  /\ UNCHANGED <<clock, cfg, stock, receipts, orders, poolSize, store, pool, boot, limiter, rr, watched, dirty,
                 calls, lookup, status, gate, tester, request>>

\* buy(): the POST; a rejection by csrfPreHandler comes back at once, its
\* Set-Cookie is stored by the browser and the 403 branch shows its message
Buy(userId, limit) ==
  /\ ~app.submitting
  /\ app.csrfToken # NoToken
  /\ Len(calls) < limit
  /\ PostPurchase(userId, app.cookie, app.csrfToken)
  /\ app' = IF AssertCsrf(app.cookie, app.csrfToken) = "ok"
              THEN [app EXCEPT !.submitting = TRUE, !.call = Len(calls) + 1,
                               !.toast = "", !.posts = 1, !.rejected = 0]
              ELSE [app EXCEPT !.cookie = gate'.reply.setCookie, !.call = 0,
                               !.toast = Toast(gate'.reply.http),
                               !.posts = 1, !.rejected = 1]
  /\ UNCHANGED <<tester, request>>

\* buy(): the reply of doPurchase
BuyReply ==
  /\ app.submitting
  /\ calls[app.call].pc = "done"
  /\ app' = [app EXCEPT !.submitting = FALSE,
                        !.toast = Toast(calls[app.call].reply.http)]
  /\ UNCHANGED <<clock, cfg, stock, receipts, orders, poolSize, store, pool, boot, limiter, rr, watched, dirty,
                 calls, lookup, status, gate, tester, request>>

\* ------------------------------------------------ the load-test client
\* oneAttempt, step 1: GET /api/csrf gives the token and the cookie
OneAttemptCsrf ==
  /\ tester.pc = "csrf"
  /\ \E token \in Tokens :
       tester' = [tester EXCEPT !.token = token,
                                !.cookie = MergeCookies(NoToken, token),
                                !.pc = "post"]
  /\ UNCHANGED <<clock, cfg, stock, receipts, orders, poolSize, store, pool, boot, limiter, rr, watched, dirty,
                 calls, lookup, status, gate, app, request>>

\* oneAttempt, steps 2 and 3: the POST for a user id of its own; after a
\* CSRF rejection that carries a new token the POST is sent once more
OneAttemptPost(limit) ==
  \E uid \in Known \ Seen :
    /\ tester.pc \in {"post", "retry"}
    /\ Len(calls) < limit
    /\ PostPurchase(uid, tester.cookie, tester.token)
    /\ tester' =
         IF AssertCsrf(tester.cookie, tester.token) = "ok"
           THEN [tester EXCEPT !.pc = "await", !.uid = uid, !.call = Len(calls) + 1,
                               !.posts = @ + 1]
           ELSE IF tester.pc = "post" /\ gate'.reply.csrfToken # NoToken
             THEN [tester EXCEPT !.pc = "retry", !.uid = uid,
                                 !.token = gate'.reply.csrfToken,
                                 !.cookie = MergeCookies(@, gate'.reply.setCookie),
                                 !.posts = @ + 1, !.rejected = @ + 1]
             ELSE [tester EXCEPT !.pc = "done", !.uid = uid,
                                 !.outcome = gate'.reply.error,
                                 !.posts = @ + 1, !.rejected = @ + 1]
    /\ UNCHANGED <<app, request>>

\* oneAttempt: the reply of doPurchase
OneAttemptReply ==
  /\ tester.pc = "await"
  /\ calls[tester.call].pc = "done"
  /\ tester' = [tester EXCEPT !.pc = "done",
                              !.outcome = Outcome(calls[tester.call].reply)]
  /\ UNCHANGED <<clock, cfg, stock, receipts, orders, poolSize, store, pool, boot, limiter, rr, watched, dirty,
                 calls, lookup, status, gate, app, request>>

\* requests arriving while time passes
Next ==
  \/ Tick
  \/ Arrive(MaxCalls)
  \/ \E i \in CallIds : AttemptWatch(i)
  \/ \E i \in CallIds : AttemptRead(i)
  \/ \E i \in CallIds : AttemptUnwatch(i)
  \/ \E i \in CallIds : AttemptExecRejected(i)
  \/ \E i \in CallIds : AttemptExecCommitted(i)
  \/ \E i \in CallIds : AttemptRollback(i)

Spec == Init /\ [][Next]_vars

\* a burst of requests that all arrive at the opening instant
InitBurst == InitStore /\ clock = StartsAt

NextBurst ==
  \/ Arrive(BurstCalls)
  \/ \E i \in CallIds : AttemptWatch(i)
  \/ \E i \in CallIds : AttemptRead(i)
  \/ \E i \in CallIds : AttemptUnwatch(i)
  \/ \E i \in CallIds : AttemptExecRejected(i)
  \/ \E i \in CallIds : AttemptExecCommitted(i)
  \/ \E i \in CallIds : AttemptRollback(i)

SpecBurst == InitBurst /\ [][NextBurst]_vars

\* purchases and lookups at one instant, before, inside or after the window
InitRead == InitStore /\ clock \in 0..MaxClock

NextRead ==
  \/ Arrive(ReadCalls)
  \/ \E i \in CallIds : AttemptWatch(i)
  \/ \E i \in CallIds : AttemptRead(i)
  \/ \E i \in CallIds : AttemptUnwatch(i)
  \/ \E i \in CallIds : AttemptExecRejected(i)
  \/ \E i \in CallIds : AttemptExecCommitted(i)
  \/ \E i \in CallIds : AttemptRollback(i)
  \/ \E b \in Known : GetPurchase(b)
  \/ GetStatus

SpecRead == InitRead /\ [][NextRead]_vars

\* GET /api/status polled while requests arrive and time passes
NextStatus ==
  \/ Tick
  \/ Arrive(MaxCalls)
  \/ \E i \in CallIds : AttemptWatch(i)
  \/ \E i \in CallIds : AttemptRead(i)
  \/ \E i \in CallIds : AttemptUnwatch(i)
  \/ \E i \in CallIds : AttemptExecRejected(i)
  \/ \E i \in CallIds : AttemptExecCommitted(i)
  \/ \E i \in CallIds : AttemptRollback(i)
  \/ GetStatus
SpecStatus == Init /\ [][NextStatus]_vars

\* A burst of purchase requests at one instant, inside the window or after
\* its end
InitContend == InitStore /\ clock \in {StartsAt, MaxClock}
NextContend ==
  \/ Arrive(ContendCalls)
  \/ \E i \in CallIds : AttemptWatch(i)
  \/ \E i \in CallIds : AttemptRead(i)
  \/ \E i \in CallIds : AttemptUnwatch(i)
  \/ \E i \in CallIds : AttemptExecRejected(i)
  \/ \E i \in CallIds : AttemptExecCommitted(i)
  \/ \E i \in CallIds : AttemptRollback(i)
SpecContend == InitContend /\ [][NextContend]_vars

\* the next step of the i-th call when Redis answers its command
AttemptStep(i) ==
  /\ i \in CallIds
  /\ \/ AttemptWatch(i) \/ AttemptRead(i) \/ AttemptUnwatch(i)
     \/ AttemptExecRejected(i) \/ AttemptExecCommitted(i) \/ AttemptRollback(i)

\* a burst on the whole pool and the whole stock, with Redis answering
\* every command: a call that awaits a reply gets it and goes on
InitAnswered == InitBurst /\ poolSize = MaxPoolSize /\ stock = MaxStock
SpecAnswered ==
  /\ InitAnswered
  /\ [][NextContend]_vars
  /\ \A i \in 1..ContendCalls : WF_vars(AttemptStep(i))

\* the clients in use: the shared one and the pool
Clients == {Base} \cup 0..(poolSize - 1)

\* Redis stops answering: the open connections close, and with them the
\* WATCH state the server kept for them; the clients start to reconnect
StoreStops ==
  /\ store.up
  /\ store' = [up |-> FALSE,
               link |-> [c \in DOMAIN store.link |->
                           IF store.link[c] = "ready" THEN "reconnecting"
                                                      ELSE store.link[c]]]
  /\ watched' = [c \in DOMAIN watched |-> {}]
  /\ dirty' = [c \in DOMAIN dirty |-> FALSE]
  /\ UNCHANGED <<clock, cfg, stock, receipts, orders, poolSize, pool, boot, limiter, rr, calls, lookup,
                 status, gate, app, tester, request>>

StoreResumes ==
  /\ ~store.up
  /\ store' = [store EXCEPT !.up = TRUE]
  /\ UNCHANGED <<clock, cfg, stock, receipts, orders, poolSize, pool, boot, limiter, rr, watched, dirty,
                 calls, lookup, status, gate, app, tester, request>>

\* the client library's retry timer fires: another connection attempt
Retry(c) ==
  /\ store.link[c] = "reconnecting"
  /\ store' = [store EXCEPT !.link[c] = "connecting"]
  /\ UNCHANGED <<clock, cfg, stock, receipts, orders, poolSize, pool, boot, limiter, rr, watched, dirty,
                 calls, lookup, status, gate, app, tester, request>>

\* a connection attempt ends.  With Redis answering the client is ready, the
\* "ready" event resolves the promises of ensureConnected and connect()
\* resolves; otherwise connect() rejects, no "ready" event is emitted and the
\* client goes back to waiting for its retry timer
ConnectEnds(c) ==
  /\ store.link[c] = "connecting"
  /\ IF store.up
       THEN /\ store' = [store EXCEPT !.link[c] = "ready"]
            /\ calls' = [i \in CallIds |->
                           IF calls[i].conn = c /\ calls[i].pc \in {"awaitReady", "connect"}
                             THEN [calls[i] EXCEPT !.pc = "watch"]
                             ELSE calls[i]]
       ELSE /\ store' = [store EXCEPT !.link[c] = "reconnecting"]
            /\ calls' = [i \in CallIds |->
                           IF calls[i].conn = c /\ calls[i].pc = "connect"
                             THEN Throw(i)[i]
                             ELSE calls[i]]
  /\ UNCHANGED <<clock, cfg, stock, receipts, orders, poolSize, pool, boot, limiter, rr, watched, dirty,
                 lookup, status, gate, app, tester, request>>

\* a command sent on a connection that is not ready is given up by the
\* client library after its reconnection attempts: the await rejects
AttemptCommandFails(i) ==
  LET c == calls[i] IN
  /\ c.pc \in {"watch", "mget", "exec", "rollback", "unwatchClosed", "unwatchDup",
               "unwatchSoldOut", "unwatchRetry", "unwatchBusy"}
  /\ store.link[c.conn] # "ready"
  /\ calls' = Throw(i)
  /\ UNCHANGED <<clock, cfg, stock, receipts, orders, poolSize, store, pool, boot, limiter, rr, watched,
                 dirty, lookup, status, gate, app, tester, request>>

\* a new request whose hgetall on the shared client is answered
ArriveAnswered(limit) == store.link[Base] = "ready" /\ Arrive(limit)

\* one step of the i-th call, and one step of the client library
CallStep(i) == AttemptStep(i) \/ (i \in CallIds /\ AttemptCommandFails(i))
LibraryStep(c) == c \in Clients /\ (Retry(c) \/ ConnectEnds(c))

\* a burst while Redis goes away and comes back.  Every pending await of a
\* call is settled when its reply or its failure is there, and the client
\* library keeps its timers; nothing obliges Redis to come back
NextOutage ==
  \/ ArriveAnswered(OutageCalls)
  \/ StoreStops
  \/ StoreResumes
  \/ \E c \in Clients : Retry(c)
  \/ \E c \in Clients : ConnectEnds(c)
  \/ \E i \in CallIds : AttemptWatch(i)
  \/ \E i \in CallIds : AttemptRead(i)
  \/ \E i \in CallIds : AttemptUnwatch(i)
  \/ \E i \in CallIds : AttemptExecRejected(i)
  \/ \E i \in CallIds : AttemptExecCommitted(i)
  \/ \E i \in CallIds : AttemptRollback(i)
  \/ \E i \in CallIds : AttemptCommandFails(i)
SpecOutage ==
  /\ InitBurst
  /\ [][NextOutage]_vars
  /\ \A i \in 1..OutageCalls : WF_vars(CallStep(i))
  /\ \A c \in {Base} \cup Sessions : WF_vars(LibraryStep(c))

\* ------------------------------------------------------- pool lifecycle
\* what the pool functions leave alone
besidePool == <<clock, cfg, stock, receipts, orders, watched, dirty, calls, lookup,
                status, gate, app, tester, request, store, boot, limiter>>

\* initTxPool up to its await: nothing with a pool or with an initialisation
\* under way, else POOL_SIZE duplicates of the shared client, all pushed
\* before the first await
InitTxPoolCall ==
  /\ IF Len(pool.txPool) > 0 \/ pool.poolInitPromise
       THEN pool' = [pool EXCEPT !.op = "initTxPool"]
       ELSE /\ pool.made < MaxPools * pool.size
            /\ pool' = [pool EXCEPT !.op = "initTxPool",
                                     !.txPool = [k \in 1..pool.size |-> pool.made + k],
                                     !.made = @ + pool.size,
                                     !.poolInitPromise = TRUE]
  /\ poolSize' = Len(pool'.txPool)
InitTxPool ==
  /\ InitTxPoolCall
  /\ UNCHANGED <<rr, besidePool>>

\* getTxConn on its own: throws on an empty pool, before it moves the cursor
GetTxConn ==
  /\ rr < MaxGets
  /\ IF Len(pool.txPool) = 0
       THEN /\ pool' = [pool EXCEPT !.op = "getTxConn", !.got.thrown = TRUE]
            /\ rr' = rr
       ELSE /\ pool' = [pool EXCEPT
                          !.op = "getTxConn",
                          !.got = [index |-> PoolIndex(rr, Len(pool.txPool)),
                                   session |-> pool.txPool[PoolIndex(rr, Len(pool.txPool)) + 1],
                                   thrown |-> FALSE]]
            /\ rr' = rr + 1
  /\ UNCHANGED <<poolSize, besidePool>>

\* closeTxPool: QUIT to every member, then, when all have answered, the
\* pool is emptied and may be initialised again
CloseTxPool ==
  /\ pool.closing < MaxClosers
  /\ pool' = [pool EXCEPT !.op = "closeTxPool", !.closing = @ + 1,
                           !.quit = @ \cup {pool.txPool[k] : k \in 1..Len(pool.txPool)}]
  /\ UNCHANGED <<poolSize, rr, besidePool>>
CloseTxPoolDone ==
  /\ pool.closing > 0
  /\ pool' = [pool EXCEPT !.op = "closed", !.closing = @ - 1,
                           !.txPool = <<>>, !.poolInitPromise = FALSE]
  /\ poolSize' = 0
  /\ UNCHANGED <<rr, besidePool>>

\* the module just loaded: no pool yet
NoPool ==
  /\ poolSize = 0
  /\ rr = 0
  /\ watched = [c \in Sessions |-> {}]
  /\ dirty = [c \in Sessions |-> FALSE]
  /\ store = [up |-> TRUE, link |-> [c \in Sessions \cup {Base} |-> "ready"]]
  /\ \E size \in 1..MaxPoolSize :
       pool = [size |-> size, txPool |-> <<>>, poolInitPromise |-> FALSE, made |-> 0,
               closing |-> 0, quit |-> {}, op |-> "", got |-> NoConn]
InitModule == InitRedis /\ InitClients /\ NoPool /\ clock = 0
NextPool ==
  \/ InitTxPool
  \/ GetTxConn
  \/ CloseTxPool
  \/ CloseTxPoolDone
SpecPool == InitModule /\ [][NextPool]_vars

\* ------------------------------------------------------- startup
\* a mutant that seeds the counter whatever EXISTS answered
CounterMissingAlways(exists) == TRUE

\* if (!exists)
CounterMissing(exists) == ~exists

\* HGETALL of a hash that does not exist has no fields
NoConfig == [startsAt |-> 0, endsAt |-> 0, initialStock |-> 0]

\* what a run that sold to the first k buyers left in the store
Leftover(k) == [j \in 1..k |-> [userId |-> k + 1 - j, ts |-> StartsAt,
                                  orderId |-> OrderIdOf(StartsAt, k + 1 - j)]]

\* the process just started, on a store that is empty or holds what an
\* earlier run left; loadSaleConfig reads the environment of this run
InitBoot ==
  /\ InitClients /\ NoPool
  /\ clock = 0
  /\ limiter = NoKeys(FALSE)
  /\ \E loaded \in 1..MaxStock, flush \in BOOLEAN, earlier \in BOOLEAN :
       /\ boot = [pc |-> IF flush THEN "flushall" ELSE "exists", flush |-> flush,
                  hasStock |-> earlier, hasConfig |-> earlier, exists |-> FALSE,
                  loaded |-> [startsAt |-> StartsAt, endsAt |-> EndsAt,
                              initialStock |-> loaded]]
       /\ IF earlier
            THEN \E s \in 1..MaxStock : \E k \in 0..s :
                   /\ cfg = [startsAt |-> StartsAt, endsAt |-> EndsAt, initialStock |-> s]
                   /\ stock = s - k
                   /\ receipts = [b \in Buyers |-> IF b <= k THEN OrderIdOf(StartsAt, b)
                                                             ELSE Nil]
                   /\ orders = Leftover(k)
            ELSE /\ cfg = NoConfig
                 /\ stock = 0
                 /\ receipts = [b \in Buyers |-> Nil]
                 /\ orders = <<>>

\* redis.flushall() of the startup sequence: every key is gone
Flushall ==
  /\ boot.pc = "flushall"
  /\ boot' = [boot EXCEPT !.pc = "exists", !.hasStock = FALSE, !.hasConfig = FALSE]
  /\ cfg' = NoConfig
  /\ stock' = 0
  /\ receipts' = [b \in Buyers |-> Nil]
  /\ orders' = <<>>
  /\ limiter' = [limiter EXCEPT !.count = [ip \in Ips |-> 0],
                                !.expires = [ip \in Ips |-> NoExpiry],
                                !.admitted = [ip \in Ips |-> 0]]
  /\ UNCHANGED <<clock, poolSize, pool, rr, watched, dirty, calls, lookup, status, gate,
                 app, tester, request, store>>

\* bootstrapSale: loadSaleConfig, then EXISTS sale:stock
BootstrapExists ==
  /\ boot.pc = "exists"
  /\ boot' = [boot EXCEPT !.exists = boot.hasStock,
                          !.pc = IF CounterMissing(boot.hasStock) THEN "set" ELSE "hset"]
  /\ UNCHANGED <<clock, cfg, stock, receipts, orders, poolSize, pool, limiter, rr, watched,
                 dirty, calls, lookup, status, gate, app, tester, request, store>>

\* bootstrapSale: SET sale:stock initialStock
BootstrapSet ==
  /\ boot.pc = "set"
  /\ stock' = boot.loaded.initialStock
  /\ boot' = [boot EXCEPT !.hasStock = TRUE, !.pc = "hset"]
  /\ UNCHANGED <<clock, cfg, receipts, orders, poolSize, pool, limiter, rr, watched,
                 dirty, calls, lookup, status, gate, app, tester, request, store>>

\* bootstrapSale: HSET sale:config with the five fields of this run
BootstrapHset ==
  /\ boot.pc = "hset"
  /\ cfg' = boot.loaded
  /\ boot' = [boot EXCEPT !.hasConfig = TRUE,
                          !.pc = IF boot.flush THEN "initTxPool" ELSE "done"]
  /\ UNCHANGED <<clock, stock, receipts, orders, poolSize, pool, limiter, rr, watched,
                 dirty, calls, lookup, status, gate, app, tester, request, store>>

\* initTxPool of the startup sequence, then the server listens
StartupInitTxPool ==
  /\ boot.pc = "initTxPool"
  /\ InitTxPoolCall
  /\ boot' = [boot EXCEPT !.pc = "listen"]
  /\ UNCHANGED <<clock, cfg, stock, receipts, orders, limiter, rr, watched, dirty, calls,
                 lookup, status, gate, app, tester, request, store>>

NextBoot ==
  \/ Flushall
  \/ BootstrapExists
  \/ BootstrapSet
  \/ BootstrapHset
  \/ StartupInitTxPool
SpecBoot == InitBoot /\ [][NextBoot]_vars

\* ------------------------------------------------------- rate limiter
\* a limiter that lets the request with count = max + 1 through
OverLimitLate(count, max) == count > max + 1

\* if (count > max)
OverLimit(count, max) == count > max

\* the value of ratelimit:<ip> at the instant now; 0 when the key does not
\* exist or its time to live has run out
KeyCount(ip, now) ==
  IF limiter.expires[ip] # NoExpiry /\ now >= limiter.expires[ip]
    THEN 0 ELSE limiter.count[ip]

HookIds == 1..Len(limiter.hooks)
besideLimiter == <<clock, cfg, stock, receipts, orders, poolSize, rr, watched, dirty, calls,
                   lookup, status, gate, app, tester, request, store, pool, boot>>

\* what the hook answers once it holds the count
Answer(count) == IF OverLimit(count, RateMax) THEN "rate_limited" ELSE "next"

\* a request of this address reaches the onRequest hook: nothing is sent with
\* DISABLE_RATELIMIT=1, else INCR ratelimit:<ip>
RateLimit(ip) ==
  /\ Len(limiter.hooks) < MaxHooks
  /\ limiter' = [limiter EXCEPT !.hooks = Append(@,
                   IF limiter.disabled
                     THEN [ip |-> ip, pc |-> "done", count |-> 0, reply |-> "next"]
                     ELSE [ip |-> ip, pc |-> "incr", count |-> 0, reply |-> ""])]
  /\ UNCHANGED besideLimiter

\* the reply of INCR: a key that did not exist is created without a time to
\* live; the first count goes on to PEXPIRE, any other is answered at once
RateLimitIncr(h) ==
  LET ip == limiter.hooks[h].ip
      count == KeyCount(ip, clock) + 1
      reply == IF count = 1 THEN "" ELSE Answer(count) IN
  /\ limiter.hooks[h].pc = "incr"
  /\ store.link[Base] = "ready"
  /\ limiter' = [limiter EXCEPT
       !.count[ip] = count,
       !.expires[ip] = IF count = 1 THEN NoExpiry ELSE @,
       !.admitted[ip] = IF count = 1 THEN 0 ELSE IF reply = "next" THEN @ + 1 ELSE @,
       !.hooks[h] = [@ EXCEPT !.count = count, !.reply = reply,
                              !.pc = IF count = 1 THEN "pexpire" ELSE "done"]]
  /\ UNCHANGED besideLimiter

\* the reply of PEXPIRE key ttl, then the answer to the first request
RateLimitPexpire(h) ==
  LET ip == limiter.hooks[h].ip
      reply == Answer(limiter.hooks[h].count) IN
  /\ limiter.hooks[h].pc = "pexpire"
  /\ store.link[Base] = "ready"
  /\ limiter' = [limiter EXCEPT
       !.expires[ip] = IF KeyCount(ip, clock) > 0 THEN clock + RateTtl ELSE @,
       !.admitted[ip] = IF reply = "next" THEN @ + 1 ELSE @,
       !.hooks[h] = [@ EXCEPT !.reply = reply, !.pc = "done"]]
  /\ UNCHANGED besideLimiter

\* a command of the hook on a lost connection is given up by the client
\* library after its reconnection attempts: the hook throws
RateLimitCommandFails(h) ==
  /\ limiter.hooks[h].pc \in {"incr", "pexpire"}
  /\ store.link[Base] # "ready"
  /\ limiter' = [limiter EXCEPT !.hooks[h] = [@ EXCEPT !.reply = "error", !.pc = "done"]]
  /\ UNCHANGED besideLimiter

\* the server is up with a full pool and a full stock; DISABLE_RATELIMIT is
\* set or not
InitLimiter ==
  /\ InitSale /\ InitPool /\ InitClients
  /\ poolSize = MaxPoolSize /\ stock = MaxStock
  /\ clock = 0
  /\ \E disabled \in BOOLEAN : limiter = NoKeys(disabled)

\* requests of a few addresses over time, with every reply of Redis in time
NextLimiter ==
  \/ \E ip \in Ips : RateLimit(ip)
  \/ \E h \in HookIds : RateLimitIncr(h)
  \/ \E h \in HookIds : RateLimitPexpire(h)
  \/ Tick
SpecLimiter == InitLimiter /\ [][NextLimiter]_vars

\* the same while the connection of the shared client is lost and comes back
NextLimiterOutage ==
  \/ \E ip \in Ips : RateLimit(ip)
  \/ \E h \in HookIds : RateLimitIncr(h)
  \/ \E h \in HookIds : RateLimitPexpire(h)
  \/ \E h \in HookIds : RateLimitCommandFails(h)
  \/ Tick
  \/ StoreStops
  \/ StoreResumes
  \/ Retry(Base)
  \/ ConnectEnds(Base)
SpecLimiterOutage == InitLimiter /\ [][NextLimiterOutage]_vars

\* purchases, one after another, and lookups with user ids of any shape; a
\* call that runs alone has no commit rejected and never sees a negative stock
NextInput ==
  \/ AnyBody(InputCalls)
  \/ AnyParam
  \/ \E i \in CallIds : AttemptWatch(i)
  \/ \E i \in CallIds : AttemptRead(i)
  \/ \E i \in CallIds : AttemptUnwatch(i)
  \/ \E i \in CallIds : AttemptExecCommitted(i)
SpecInput == InitContend /\ [][NextInput]_vars

\* POSTs of any client arriving at the guarded route
NextGate ==
  \/ AnyPost(MaxCalls)
  \/ \E i \in CallIds : AttemptWatch(i)
  \/ \E i \in CallIds : AttemptRead(i)
  \/ \E i \in CallIds : AttemptUnwatch(i)
  \/ \E i \in CallIds : AttemptExecRejected(i)
  \/ \E i \in CallIds : AttemptExecCommitted(i)
  \/ \E i \in CallIds : AttemptRollback(i)
SpecGate == InitContend /\ [][NextGate]_vars

\* the frontend and the load-test client buying through the guarded route
NextClients ==
  \/ AppMount
  \/ CookieExpires
  \/ \E b \in Known : Buy(b, MaxCalls)
  \/ BuyReply
  \/ OneAttemptCsrf
  \/ OneAttemptPost(MaxCalls)
  \/ OneAttemptReply
  \/ \E i \in CallIds : AttemptWatch(i)
  \/ \E i \in CallIds : AttemptRead(i)
  \/ \E i \in CallIds : AttemptUnwatch(i)
  \/ \E i \in CallIds : AttemptExecRejected(i)
  \/ \E i \in CallIds : AttemptExecCommitted(i)
  \/ \E i \in CallIds : AttemptRollback(i)
SpecClients == InitContend /\ [][NextClients]_vars

\* ------------------------------------------------------------ properties
\* the step is one of the i-th call
Stepped(i) == calls'[i].pc # calls[i].pc

Done(i) == calls[i].pc = "done"
Reserved(i) == Done(i) /\ calls[i].code = 0
AlreadyReserved(i) == Done(i) /\ calls[i].code = 1
SoldOut(i) == Done(i) /\ calls[i].code = 2
WindowClosedResult(i) == Done(i) /\ calls[i].code = 3
Busy(i) == Done(i) /\ calls[i].code = 4
ReservedCalls == {i \in CallIds : Reserved(i)}
ReceiptHolders == {b \in Buyers : receipts[b] # Nil}
Logged(i) == \E k \in 1..Len(orders) :
               orders[k].orderId = OrderIdOf(calls[i].now, calls[i].userId)

\* C1: the number of purchase calls that have returned Reserved never
\* exceeds the configured initialStock
C1_NoOversell == Cardinality(ReservedCalls) <= cfg.initialStock

\* the whole stock is reserved and one more transaction, committed on a
\* shared connection, was answered SoldOut
C1_Witness ==
  /\ Cardinality(ReservedCalls) = cfg.initialStock
  /\ \E i \in CallIds : SoldOut(i) /\ Logged(i) /\ receipts[calls[i].userId] = Nil

\* C2: once N calls by N distinct buyers, all made inside the window against
\* a stock S < N, have all returned, exactly S of them returned Reserved,
\* every other one returned SoldOut, and the stock is 0
C2_ExactlyStockReserved ==
  (/\ Quiescent
   /\ Len(calls) > cfg.initialStock
   /\ \A i, j \in CallIds : i # j => calls[i].userId # calls[j].userId
   /\ \A i \in CallIds : ~WindowClosed(calls[i].now, cfg.startsAt, cfg.endsAt))
  => /\ Cardinality(ReservedCalls) = cfg.initialStock
     /\ \A i \in CallIds \ ReservedCalls : SoldOut(i)
     /\ stock = 0

\* C3: for every buyer at most one call returns Reserved and every call
\* that returns AlreadyReserved carries the orderId of that call; when the
\* calls of a run are all by one buyer and inside the window, then once they
\* have all returned exactly one returned Reserved, every other one returned
\* AlreadyReserved, and the stock went down by exactly 1
C3_OnePerBuyer ==
  /\ \A i, j \in ReservedCalls : calls[i].userId = calls[j].userId => i = j
  /\ \A i \in CallIds : AlreadyReserved(i) =>
        \E j \in ReservedCalls : /\ calls[j].userId = calls[i].userId
                                  /\ calls[j].orderId = calls[i].orderId
  /\ (/\ Quiescent
      /\ Len(calls) >= 1
      /\ \A i \in CallIds : /\ calls[i].userId = calls[1].userId
                             /\ ~WindowClosed(calls[i].now, cfg.startsAt, cfg.endsAt))
     => /\ Cardinality(ReservedCalls) = 1
        /\ \A i \in CallIds \ ReservedCalls : AlreadyReserved(i)
        /\ stock = cfg.initialStock - 1

\* C4: a call whose now is outside [startsAt, endsAt] changes neither the
\* stock, nor a receipt, nor the order log in any of its steps, and when it
\* returns it returns WindowClosed
C4_WindowEnforcement ==
  [][\A i \in CallIds :
       (Stepped(i) /\ (calls[i].now < cfg.startsAt \/ calls[i].now > cfg.endsAt))
         => /\ stock' = stock /\ receipts' = receipts /\ orders' = orders
            /\ calls'[i].pc = "done" => calls'[i].code = 3]_vars

\* a call made after endsAt by a buyer who holds a receipt, with stock left,
\* has returned WindowClosed
C4_Witness ==
  \E i \in CallIds :
    /\ WindowClosedResult(i)
    /\ calls[i].now > cfg.endsAt
    /\ receipts[calls[i].userId] # Nil
    /\ stock > 0

\* C5: with no purchase call in flight, the stock is initialStock minus the
\* number of receipts and also initialStock minus the number of calls that
\* returned Reserved
C5_StockAccounting ==
  Quiescent => /\ stock = cfg.initialStock - Cardinality(ReceiptHolders)
               /\ stock = cfg.initialStock - Cardinality(ReservedCalls)

\* C6: a step raises the stock only if it is the guard rollback of a call,
\* and with no purchase call in flight the stock is not negative
C6_MonotonicStock ==
  /\ [][stock' > stock =>
          \E i \in CallIds : calls[i].pc = "rollback" /\ calls'[i].pc = "done"]_vars
  /\ [](Quiescent => stock >= 0)

\* C7: a receipt that exists is neither deleted nor given another orderId
\* by any step
C7_ReceiptPermanence ==
  [][\A b \in Buyers : receipts[b] # Nil => receipts'[b] = receipts[b]]_vars

\* C8: a lookup answers {purchased:false, orderId:null} when no purchase
\* call of that buyer has returned Reserved, and {purchased:true, orderId}
\* with the returned orderId once one has
C8_LookupConsistency ==
  [][lookup' # lookup =>
       LET mine == {i \in ReservedCalls : calls[i].userId = lookup'.userId} IN
       /\ mine = {} => lookup'.reply = [purchased |-> FALSE, orderId |-> Nil]
       /\ \A i \in mine :
            lookup'.reply = [purchased |-> TRUE, orderId |-> calls[i].orderId]]_vars

\* C9: no two purchase calls in flight hold the same pooled connection
C9_SessionIsolation ==
  \A i, j \in CallIds :
    (i # j /\ InFlight(i) /\ InFlight(j)) => calls[i].conn # calls[j].conn

\* C10: a transaction commits only from the stock value its attempt read,
\* with the receipt slot of its buyer still empty
C10_ConditionalCommit ==
  [][\A i \in CallIds :
       (calls[i].pc = "exec" /\ calls'[i].pc \in {"done", "rollback"})
         => /\ stock = calls[i].stock
            /\ receipts[calls[i].userId] = Nil]_vars

\* C11: two purchase calls in flight on the same pooled connection cost
\* nothing but rejected commits and retries: whether or not a connection is
\* shared, the calls that returned Reserved never outnumber the initial stock,
\* no buyer has two calls that returned Reserved, and no step overwrites or
\* erases a receipt.
SharedSession(i) ==
  \E j \in CallIds : j # i /\ InFlight(i) /\ InFlight(j) /\ calls[i].conn = calls[j].conn
C11_SharingOnlyCostsRetries ==
  /\ [](/\ Cardinality(ReservedCalls) <= cfg.initialStock
        /\ \A i, j \in ReservedCalls : calls[i].userId = calls[j].userId => i = j)
  /\ [][(\E i \in CallIds : SharedSession(i))
          => \A b \in Buyers : receipts[b] # Nil => receipts'[b] = receipts[b]]_vars

\* C12: the window check of a retry uses the current time: when the clock is
\* outside the window at a call's attempt that follows a rejected commit,
\* that attempt goes to the WindowClosed exit after its WATCH, and no step of
\* the call from then on changes the stock, a receipt or the order log.
ClosedNow == clock < cfg.startsAt \/ clock > cfg.endsAt
C12_WindowRecheckedOnRetry ==
  [][\A i \in CallIds :
       (Stepped(i) /\ calls[i].tries > 0 /\ ClosedNow)
         => /\ calls[i].pc = "watch" => calls'[i].pc = "unwatchClosed"
            /\ stock' = stock /\ receipts' = receipts /\ orders' = orders]_vars

\* C13: retry discipline.  A call starts a new attempt only from the UNWATCH
\* that follows a rejected commit, and a rejected commit changes nothing in
\* the store; a call that found the window closed, a receipt or no stock
\* returns code 3, 1 or 2 on that attempt, and a read of a stock <= 0 with no
\* receipt always takes the SoldOut exit; the attempt counter grows by one per
\* rejected commit, and code 4 is returned only through the exit taken when
\* that counter reaches MAX_RETRIES.
C13_RetryDiscipline ==
  [][\A i \in CallIds :
       Stepped(i) =>
         /\ calls'[i].pc = "watch" => calls[i].pc = "unwatchRetry"
         /\ calls'[i].pc = "unwatchRetry"
              => /\ calls[i].pc = "exec"
                 /\ stock' = stock /\ receipts' = receipts /\ orders' = orders
         /\ calls'[i].tries > calls[i].tries
              => /\ calls[i].pc = "unwatchRetry"
                 /\ calls'[i].tries = calls[i].tries + 1
         /\ calls[i].pc = "unwatchClosed" => WindowClosedResult(i)'
         /\ calls[i].pc = "unwatchDup" => AlreadyReserved(i)'
         /\ calls[i].pc = "unwatchSoldOut" => SoldOut(i)'
         /\ (calls[i].pc = "mget" /\ stock <= 0 /\ receipts[calls[i].userId] = Nil)
              => calls'[i].pc = "unwatchSoldOut"
         /\ calls'[i].pc = "unwatchBusy"
              => /\ calls[i].pc = "unwatchRetry"
                 /\ calls'[i].tries = MAX_RETRIES
         /\ Busy(i)' => calls[i].pc = "unwatchBusy" /\ calls[i].tries = MAX_RETRIES]_vars
C13_Witness == \E i, j \in CallIds : Busy(i) /\ Reserved(j)

\* C14: as long as every purchase call so far was handed a connection that no
\* other call in flight was using, the defensive branch is unreachable: no
\* committed DECR returns a negative stock (no call stands before the guard
\* rollback) and the stock counter is not negative.
AllDedicated == \A i \in CallIds : calls[i].dedicated
C15_OutcomeMapping ==
  /\ \A i \in CallIds :
       Done(i) =>
         /\ Reserved(i) => calls[i].reply.http = 200
         /\ AlreadyReserved(i) => calls[i].reply.http = 409
         /\ SoldOut(i) => calls[i].reply.http = 410
         /\ WindowClosedResult(i) => calls[i].reply.http = 403
         /\ Busy(i) => calls[i].reply.http = 503
         /\ calls[i].reply.http # 500
  /\ \A i, j \in CallIds :
       (Done(i) /\ Done(j) /\ calls[i].code # calls[j].code)
         => calls[i].reply.http # calls[j].reply.http
  /\ app.toast = Toast(403) => (app.call \in CallIds /\ WindowClosedResult(app.call))
  /\ tester.outcome = "not_active"
       => (tester.call \in CallIds /\ WindowClosedResult(tester.call))

\* C16: every reply of GET /api/status gives the phase by first match,
\* upcoming before the start, ended after the end whatever the stock,
\* sold_out inside the window with a stock <= 0, active otherwise, together
\* with the stock it read and sold = initialStock - stock, so that stock and
\* sold add up to initialStock.
C16_StatusDerivation ==
  [][status' # status =>
       LET r == status'
           before == clock < cfg.startsAt
           after == clock > cfg.endsAt IN
       /\ r.status \in {"upcoming", "ended", "sold_out", "active"}
       /\ r.status = "upcoming" <=> before
       /\ r.status = "ended" <=> (~before /\ after)
       /\ r.status = "sold_out" <=> (~before /\ ~after /\ stock <= 0)
       /\ r.status = "active" <=> (~before /\ ~after /\ stock > 0)
       /\ r.stock = stock
       /\ r.sold = cfg.initialStock - stock
       /\ r.stock + r.sold = cfg.initialStock]_vars
C16_Witness ==
  /\ status.status = "ended"
  /\ status.stock <= 0
  /\ status.sold >= cfg.initialStock

\* C17: the read paths are pure: a step that answers GET /api/status or
\* GET /api/purchase/:userId, at any moment between the steps of purchase
\* calls, leaves sale:config, sale:stock, every receipt and the order log as
\* they were.
C17_ReadsArePure ==
  [][(lookup' # lookup \/ status' # status)
       => /\ cfg' = cfg /\ stock' = stock
          /\ receipts' = receipts /\ orders' = orders]_vars
C17_Witness ==
  /\ lookup.reply.purchased
  /\ status.status = "active"
  /\ \E i \in CallIds : InFlight(i) /\ calls[i].pc = "exec"

\* C18: the order log only grows, by one entry at its head in each step in
\* which a call commits, so that read from its tail it is in commit order;
\* every call that put an entry there returns Reserved and no other call
\* adds one, and in every state with no call in flight the log has as many
\* entries as there are receipts and as there are calls that returned
\* Reserved.
C18_OrderLog ==
  /\ [][orders' # orders
          => \E i \in CallIds :
               /\ calls[i].pc = "exec"
               /\ Reserved(i)'
               /\ orders' = <<[userId |-> calls[i].userId, ts |-> calls[i].now,
                                orderId |-> calls'[i].orderId]>> \o orders]_vars
  /\ [](Quiescent => /\ Len(orders) = Cardinality(ReceiptHolders)
                      /\ Len(orders) = Cardinality(ReservedCalls))

\* C19: a purchase call is started only by a POST /api/purchase whose CSRF
\* cookie and CSRF header are both present and equal; a POST for which that
\* is not so is answered 403 with error csrf, starts no call and leaves
\* sale:config, sale:stock, the receipts and the order log unchanged.
TokensAgree(post) ==
  post.cookie # NoToken /\ post.header # NoToken /\ post.cookie = post.header
C19_CsrfGate ==
  [][/\ Len(calls') > Len(calls) => (TokensAgree(gate') /\ gate'.reply = Passed)
     /\ (gate' # gate /\ ~TokensAgree(gate'))
          => /\ gate'.reply.http = 403
             /\ gate'.reply.error = "csrf"
             /\ calls' = calls
             /\ cfg' = cfg /\ stock' = stock
             /\ receipts' = receipts /\ orders' = orders]_vars
C19_Witness ==
  /\ gate.reply.http = 403
  /\ gate.reply.reason = "mismatch"
  /\ \E i \in CallIds : Reserved(i)

\* C20: every answer of the CSRF pre-handler that rejects carries one new
\* token both in Set-Cookie and in the body; the next POST that carries that
\* token as cookie and as header passes the pre-handler; and each client, the
\* load-test client and the frontend, sends a purchase whose POST was
\* rejected for CSRF exactly once more, so that a purchase it is done with
\* took two POSTs if one was rejected and one POST otherwise.
C20_CsrfRotationAndRetry ==
  /\ [](/\ gate.reply.http = 403
              => (gate.reply.csrfToken \in Tokens /\ gate.reply.setCookie = gate.reply.csrfToken)
        /\ tester.pc \in {"await", "done"}
              => tester.posts = (IF tester.rejected > 0 THEN 2 ELSE 1)
        /\ (~app.submitting /\ app.posts > 0)
              => app.posts = (IF app.rejected > 0 THEN 2 ELSE 1))
  /\ [][(/\ gate.reply.http = 403
          /\ gate'.cookie = gate.reply.csrfToken
          /\ gate'.header = gate.reply.csrfToken) => gate'.reply = Passed]_vars

\* C21: a purchase or lookup request whose userId is missing or, once the
\* spaces around it are removed, shorter than three characters is answered
\* 422 invalid_user; it starts no purchase call, takes no pooled connection
\* (the round-robin cursor and the WATCH state stay as they are) and changes
\* neither the store nor the lookup reply; a request with a longer id is
\* not answered 422.
C21_InvalidUser ==
  [][request' # request =>
       IF Len(Trim(request'.userId)) < 3
         THEN /\ request'.http = 422 /\ request'.error = "invalid_user"
              /\ calls' = calls /\ rr' = rr
              /\ watched' = watched /\ dirty' = dirty
              /\ cfg' = cfg /\ stock' = stock
              /\ receipts' = receipts /\ orders' = orders
              /\ lookup' = lookup
         ELSE /\ request'.http # 422
              /\ request'.route = "POST /api/purchase"
                   => /\ Len(calls') = Len(calls) + 1
                      /\ NameOf(calls'[Len(calls')].userId) = Trim(request'.userId)]_vars
C21_Witness ==
  /\ request.http = 422
  /\ request.userId = <<Space, Letter, Letter, Space>>
  /\ \E i \in CallIds : InFlight(i)

\* C22: exhaustion is absorbing.  Once sale:stock is 0 or less it stays 0 or
\* less; from then on no call becomes Reserved; a call that reads the store
\* then, for a buyer without a receipt, leaves through the sold-out exit and
\* returns SoldOut; and getStatus, asked between startsAt and endsAt,
\* reports sold_out.
C22_ExhaustionAbsorbing ==
  [][stock <= 0 =>
       /\ stock' <= 0
       /\ \A i \in CallIds :
            /\ ~Reserved(i) => ~(calls'[i].pc = "done" /\ calls'[i].code = 0)
            /\ (calls[i].pc = "mget" /\ Stepped(i)
                  /\ receipts[calls[i].userId] = Nil)
                 => calls'[i].pc = "unwatchSoldOut"
            /\ (calls[i].pc = "unwatchSoldOut" /\ Stepped(i))
                 => (calls'[i].pc = "done" /\ calls'[i].code = 2)
       /\ (status' # status /\ clock >= cfg.startsAt /\ clock <= cfg.endsAt)
            => status'.status = "sold_out"]_vars
C22_Witness ==
  /\ stock = 0
  /\ status.status = "sold_out"
  /\ \E i, j \in CallIds :
       /\ Reserved(i)
       /\ SoldOut(j) /\ calls[j].userId # calls[i].userId
       /\ ~WindowClosed(calls[j].now, cfg.startsAt, cfg.endsAt)

\* C23: every purchase call comes to an end, with an outcome or with a store
\* error, also when Redis stops answering while the call is under way or
\* while its pooled connection is still connecting.
C23_BoundedFailure ==
  \A i \in 1..OutageCalls : [](i \in CallIds => <>(i \in CallIds /\ ~InFlight(i)))

\* C24: the window is looked at first, then the receipt, then the stock.  A
\* call whose instant lies outside the window returns WindowClosed whether
\* or not its buyer holds a receipt; a call inside the window that reads a
\* receipt of its buyer returns AlreadyReserved with that order id, whatever
\* the stock it reads, zero included.
C24_OutcomePrecedence ==
  /\ [](\A i \in CallIds :
          (Done(i) /\ WindowClosed(calls[i].now, calls[i].startsAt, calls[i].endsAt))
            => WindowClosedResult(i))
  /\ [][\A i \in CallIds :
          /\ (calls[i].pc = "mget" /\ Stepped(i)
                /\ receipts[calls[i].userId] # Nil)
               => (calls'[i].pc = "unwatchDup"
                   /\ calls'[i].orderId = receipts[calls[i].userId])
          /\ (calls[i].pc = "unwatchDup" /\ Stepped(i))
               => (calls'[i].pc = "done" /\ calls'[i].code = 1
                   /\ calls'[i].orderId = calls[i].orderId)]_vars
C24_Witness ==
  /\ stock = 0
  /\ cfg.initialStock = 1
  /\ \E i, j \in CallIds :
       /\ Reserved(i)
       /\ AlreadyReserved(j) /\ calls[j].userId = calls[i].userId
       /\ calls[j].orderId = receipts[calls[i].userId]

\* C25: compensation is complete.  The step by which a call that saw a
\* negative stock after its own commit returns SoldOut gives the unit back
\* (sale:stock is one higher than before the step) and leaves the buyer
\* without a receipt.
C25_CompensationComplete ==
  [][\A i \in CallIds :
       (calls[i].pc = "rollback" /\ Stepped(i))
         => /\ SoldOut(i)'
            /\ stock' = stock + 1
            /\ receipts'[calls[i].userId] = Nil]_vars

\* C26: the three writes of a reservation take effect in one step.  The EXEC
\* of an attempt either decrements sale:stock, sets the buyer's receipt and
\* puts the order at the head of the log, all in that step, or, when it is
\* rejected, changes none of the three; every other step of an attempt up
\* to its EXEC changes none of them either, so that no state between two
\* steps shows a part of a reservation.
C26_AtomicVisibility ==
  [][\A i \in CallIds :
       LET c == calls[i]
           orderId == OrderIdOf(c.now, c.userId) IN
       Stepped(i) =>
         \/ /\ c.pc = "exec"
            /\ calls'[i].pc \in {"done", "rollback"}
            /\ stock' = stock - 1
            /\ receipts' = [receipts EXCEPT ![c.userId] = orderId]
            /\ orders' = <<[userId |-> c.userId, ts |-> c.now, orderId |-> orderId]>> \o orders
         \/ /\ c.pc = "rollback"
            /\ orders' = orders
         \/ /\ c.pc # "rollback"
            /\ ~Reserved(i)' /\ calls'[i].pc # "rollback"
            /\ stock' = stock /\ receipts' = receipts /\ orders' = orders]_vars
C26_Witness ==
  /\ Len(orders) = 1
  /\ stock = cfg.initialStock - 1
  /\ \E i, j \in CallIds :
       /\ Reserved(j) /\ receipts[calls[j].userId] = calls[j].orderId
       /\ calls[i].pc = "unwatchRetry" /\ receipts[calls[i].userId] = Nil

\* C27: with Redis answering every command, every purchase call returns,
\* with one of the five outcomes, under any interleaving with the other
\* calls; an attempt that gets to its EXEC has had fewer than MAX_RETRIES
\* commits rejected before, and a call gives up as Busy when exactly
\* MAX_RETRIES of its commits have been rejected.
C27_Termination ==
  /\ \A i \in 1..ContendCalls : [](i \in CallIds => <>(i \in CallIds /\ Done(i)))
  /\ [](\A i \in CallIds :
          /\ Done(i) => calls[i].code \in 0..4
          /\ calls[i].pc = "exec" => calls[i].tries < MAX_RETRIES
          /\ calls[i].pc = "unwatchBusy" => calls[i].tries = MAX_RETRIES)
C27_Witness ==
  \E i, j, k \in CallIds :
    /\ Busy(i) /\ Reserved(j) /\ Done(k)
    /\ i # k /\ j # k

\* C28: the EXEC of an attempt is rejected only if, between the WATCH of
\* that attempt and the EXEC, another call committed a write to sale:stock
\* or to the receipt the attempt watches.
C28_RejectedOnlyByAWrite ==
  [][\A i \in CallIds :
       (calls[i].pc = "exec" /\ calls'[i].pc = "unwatchRetry") => calls[i].written]_vars

\* C29: a purchase call for buyer b leaves the receipt of every other buyer
\* and sale:config as they are; what a step of the call may change in the
\* store is sale:stock, the receipt of b and the order log, and what it adds
\* to the log is an order of b.  The arrival of a request changes nothing in
\* the store.
C29_PurchaseFrame ==
  [][/\ \A i \in CallIds :
          Stepped(i) =>
            /\ cfg' = cfg
            /\ \A a \in Buyers \ {calls[i].userId} : receipts'[a] = receipts[a]
            /\ \/ orders' = orders
               \/ /\ Tail(orders') = orders
                  /\ Head(orders').userId = calls[i].userId
     /\ Len(calls') > Len(calls)
          => (cfg' = cfg /\ stock' = stock /\ receipts' = receipts /\ orders' = orders)]_vars
C29_Witness ==
  \E i, j \in CallIds :
    /\ calls[i].userId # calls[j].userId
    /\ Reserved(i) /\ receipts[calls[i].userId] = calls[i].orderId
    /\ SoldOut(j) /\ receipts[calls[j].userId] = Nil
    /\ Len(orders) = 2

\* C30: status and purchase agree on the window, bounds included.  A reply
\* of GET /api/status says upcoming or ended exactly when the purchase calls
\* that took the same instant under the same configuration return
\* WindowClosed; at now = startsAt and at now = endsAt the status is neither
\* upcoming nor ended and no call returns WindowClosed.
C30_WindowAgreement ==
  /\ [][status' # status =>
          LET shut == status'.status \in {"upcoming", "ended"} IN
          /\ \A i \in CallIds :
               (Done(i) /\ calls[i].now = clock
                 /\ calls[i].startsAt = status'.startsAt
                 /\ calls[i].endsAt = status'.endsAt)
                => (WindowClosedResult(i) <=> shut)
          /\ clock \in {cfg.startsAt, cfg.endsAt} => ~shut]_vars
  /\ [](\A i \in CallIds :
          calls[i].now \in {calls[i].startsAt, calls[i].endsAt}
            => ~WindowClosedResult(i))
C30_Witness ==
  /\ clock = cfg.endsAt
  /\ status.status = "active"
  /\ \E i, j \in CallIds :
       /\ Reserved(i) /\ calls[i].now = cfg.endsAt
       /\ Reserved(j) /\ calls[j].now = cfg.startsAt

\* C31: the pool holds no session or exactly POOL_SIZE of them.  getTxConn
\* throws exactly when the pool is empty, and then leaves the cursor alone;
\* otherwise it returns a member of the pool, the one that follows the
\* member it returned last in the cyclic order of the pool.  initTxPool on
\* an empty pool that no one is initialising puts POOL_SIZE sessions into
\* it, none of which existed before, and initTxPool on a pool that is there
\* changes nothing.
Members == {pool.txPool[k] : k \in 1..Len(pool.txPool)}
C31_PoolLifecycle ==
  /\ [](Len(pool.txPool) \in {0, pool.size} /\ poolSize = Len(pool.txPool))
  /\ [][/\ (pool'.op = "getTxConn" /\ <<pool, rr>>' # <<pool, rr>>)
            => IF Len(pool.txPool) = 0
                 THEN pool'.got.thrown /\ rr' = rr
                 ELSE /\ ~pool'.got.thrown
                      /\ pool'.got.session \in Members
                      /\ pool'.txPool[pool'.got.index + 1] = pool'.got.session
                      /\ pool.got.index >= 0
                           => pool'.got.index = (pool.got.index + 1) % pool.size
        /\ (pool'.op = "initTxPool" /\ pool' # pool)
            => IF Len(pool.txPool) = 0 /\ ~pool.poolInitPromise
                 THEN /\ Len(pool'.txPool) = pool.size
                      /\ Cardinality(Members') = pool.size
                      /\ Members' \cap (pool.quit \cup 1..pool.made) = {}
                 ELSE pool'.txPool = pool.txPool]_vars
C31_Witness ==
  /\ pool.size > 1
  /\ pool.made > pool.size
  /\ pool.quit # {}
  /\ Len(pool.txPool) = pool.size
  /\ ~pool.got.thrown /\ pool.got.session \in Members /\ pool.got.index > 0

\* C32: bootstrapSale sets the stock counter to initialStock only when no
\* counter exists; on an existing counter it leaves the counter, the
\* receipts and the order log as they are and rewrites the sale config; after
\* flushall, bootstrapSale and initTxPool the counter is initialStock, there
\* is no receipt, the order log is empty and the pool is full.
Bootstrapping == boot.pc \in {"exists", "set", "hset"}
C32_Bootstrap ==
  /\ [](/\ boot.pc \in {"done", "initTxPool", "listen"}
           => /\ boot.hasStock /\ boot.hasConfig /\ cfg = boot.loaded
              /\ ~boot.exists => stock = boot.loaded.initialStock
        /\ (boot.pc = "listen" /\ boot.flush)
           => /\ stock = cfg.initialStock
              /\ ReceiptHolders = {}
              /\ orders = <<>>
              /\ Len(pool.txPool) = pool.size)
  /\ [][Bootstrapping
          => /\ receipts' = receipts /\ orders' = orders
             /\ boot.hasStock => stock' = stock /\ boot'.hasStock
             /\ (stock' # stock \/ boot'.hasStock # boot.hasStock)
                  => ~boot.hasStock /\ boot'.hasStock
                     /\ stock' = boot.loaded.initialStock]_vars
C32_Witness ==
  /\ boot.pc = "done" /\ boot.exists
  /\ stock # boot.loaded.initialStock
  /\ ReceiptHolders # {}
  /\ cfg = boot.loaded


\* C33: for each address, at most RateMax requests are admitted during the
\* life of its counter and every further one is answered 429; a counter that
\* exists carries a time to live once no request of the address is between
\* INCR and PEXPIRE, and the first request after the time to live counts
\* from 1 again; with DISABLE_RATELIMIT=1 every request is admitted and no
\* key is written.
Pending(ip) == \E h \in HookIds : limiter.hooks[h].ip = ip /\ limiter.hooks[h].pc = "pexpire"
C33_Admission ==
  /\ [](\A ip \in Ips : limiter.admitted[ip] <= RateMax)
  /\ [](limiter.disabled
          => /\ \A ip \in Ips : limiter.count[ip] = 0 /\ limiter.expires[ip] = NoExpiry
             /\ \A h \in HookIds : limiter.hooks[h].reply = "next")
  /\ [][\A h \in HookIds :
          (limiter.hooks[h].pc = "incr" /\ limiter'.hooks[h].pc # "incr"
             /\ limiter'.hooks[h].reply # "error")
            => LET ip == limiter.hooks[h].ip
                   count == limiter'.hooks[h].count IN
               /\ count = KeyCount(ip, clock) + 1
               /\ count > RateMax => limiter'.hooks[h].reply = "rate_limited"
               /\ count \in 2..RateMax => limiter'.hooks[h].reply = "next"
               /\ (limiter.expires[ip] # NoExpiry /\ clock >= limiter.expires[ip])
                    => count = 1]_vars
C33_Expiry ==
  \A ip \in Ips : (KeyCount(ip, clock) > 0 /\ ~Pending(ip)) => limiter.expires[ip] # NoExpiry
====
